---- MODULE Spec2Model ----
(***************************************************************************)
(* Model of the decomposition-tree application (app_v1.0.py).              *)
(*                                                                         *)
(* Server side: the hierarchy validation, build_tree (the recursive        *)
(* groupby aggregation with its percentage, colour and display-filter      *)
(* rules) and the wrapping of the returned forest into the single root     *)
(* d3_tree_data that is handed to the client.                              *)
(*                                                                         *)
(* Representation.                                                         *)
(*  - A DataFrame is a sequence of rows; a row is a function from column   *)
(*    names to cells.  A cell of a hierarchy column is a small positive    *)
(*    integer or NaN; the cell of "__value__" is a number counted in       *)
(*    halves (1 = 0.5, 2 = 1.0, ...), so that the truncation done by       *)
(*    int(group[value_col].sum()) is visible.                              *)
(*  - A tree node is a record with the keys of the Python dict; the key    *)
(*    "children" is absent when the code pops it (lines 260-261, 340-341). *)
(*  - A dict argument that is None is the empty function: every test the   *)
(*    code makes on it (isinstance(x, dict) and key in x) is then false,   *)
(*    as it is for None.                                                   *)
(*  - tooltip_data and status_mode do not influence any other key of a     *)
(*    node and are left out of the node record.                            *)
(***************************************************************************)
EXTENDS Integers, Sequences, FiniteSets, TLC

VARIABLES
  df,              \* the row table, after the "__value__" column is added
  hierarchy,       \* ordered list of the selected hierarchy columns
  value_col,       \* None, or "__value__"
  display_filters, \* dict column -> set of allowed val_str (empty = None)
  color_mode,      \* "Uniform", "By Level", "Per Node (UI)", "Per Node (CSV)"
  uniform_color,
  level_colors,    \* dict level -> colour (empty = None)
  per_node_colors, \* dict <<column, val_str>> -> colour (empty = None)
  pc,              \* position in the script run
  error_shown,     \* st.error has been called
  tree_data,       \* the forest returned by build_tree
  d3_tree_data,    \* the single root handed to the client
  orderMode,       \* "Custom (as-is)", "Name A→Z", ... (sidebar, constant of a page)
  enableDragReorder, \* sidebar checkbox, constant of a page
  node_size,       \* sidebar slider "Node Size:", constant of a page
  data,            \* const data = {tree_data_json}
  node_children,   \* Node.children of every node of root's hierarchy
  _children,       \* Node._children, the stash the page adds to a node
  manualOrder,     \* let manualOrder
  dragActive,      \* let dragActive
  gesture,         \* the d3-drag gesture in progress (pointer held down)
  click,           \* the click event the browser dispatches after a mouseup
  selectedNode,    \* let selectedNode
  contextMenu,     \* contextMenu.style.display
  download,        \* what the last export handed to the browser
  pending,         \* the PNG exports whose image is still being loaded or encoded
  nodeDataContent  \* nodeDataContent.innerHTML, the text of the details panel

sidebar == <<orderMode, enableDragReorder, node_size>>

client == <<data, node_children, _children, manualOrder, dragActive, gesture, click,
            selectedNode, contextMenu, download, pending, nodeDataContent>>

vars == <<df, hierarchy, value_col, display_filters, color_mode, uniform_color,
          level_colors, per_node_colors, pc, error_shown, tree_data, d3_tree_data,
          sidebar, client>>

config == <<df, hierarchy, value_col, display_filters, color_mode, uniform_color,
            level_colors, per_node_colors>>

-----------------------------------------------------------------------------
(* Bounds of the model                                                     *)

MaxRows == 2        \* rows of a table in Spec and SpecColor
NumKeys == 2        \* distinct non-null cell values of a hierarchy column
MaxHalves == 2      \* largest "__value__" cell, in halves
MaxWideRows == 6    \* rows of a table in SpecPct
WideKeys == 3       \* distinct non-null cell values in SpecPct

-----------------------------------------------------------------------------
(* Values                                                                  *)

None == "None"
NaN == 0
ValueCol == "__value__"
Cols == <<"Region", "Status">>
ColSet == {Cols[i] : i \in 1..Len(Cols)}
NoDict == <<>>
NoTree == [name |-> "<unset>"]

\* JavaScript null and undefined.  A nullable reference is a sequence of at most
\* one element; Node.children and Node._children are the list of the nodes of the
\* array, and no handler ever stores an empty array in them (d3.hierarchy leaves
\* children undefined on a leaf, and the array a drag stores contains the dragged
\* node), so that the empty list stands for null there too.
null == <<>>
NoDownload == [kind |-> "none", nodes |-> <<>>, rows |-> <<>>, tree |-> NoTree]

isna(val) == val = NaN

\* str(val) for the cell values of the model (single-digit integers)
Digits == <<"1", "2", "3", "4", "5", "6", "7", "8", "9">>
str(val) == Digits[val]

RECURSIVE SumSeq(_)
SumSeq(s) == IF s = <<>> THEN 0 ELSE Head(s) + SumSeq(Tail(s))

-----------------------------------------------------------------------------
(* df.groupby(col): pandas defaults sort=True, dropna=True.  The groups    *)
(* come in ascending key order, each group keeps the row order of the      *)
(* frame, and the rows whose key is null are in no group.                  *)

RECURSIVE SortedSeq(_)
SortedSeq(S) ==
  IF S = {} THEN <<>>
  ELSE LET m == CHOOSE x \in S : \A y \in S : x <= y
       IN <<m>> \o SortedSeq(S \ {m})

groupby(df_sub, col) ==
  LET keys == SortedSeq({df_sub[i][col] : i \in 1..Len(df_sub)} \ {NaN})
  IN [k \in 1..Len(keys) |->
        [val |-> keys[k],
         group |-> SelectSeq(df_sub, LAMBDA row : row[col] = keys[k])]]

-----------------------------------------------------------------------------
(* Pieces of one loop iteration of build_tree / add_node                   *)

\* val_str = "No Data" if pd.isna(val) else str(val)
val_str_of(val) == IF isna(val) THEN "No Data" ELSE str(val)

\* mutant: the test of the allowed set without its `not`
filtered_out_inverted(col, val_str, display_filters_) ==
  /\ col \in DOMAIN display_filters_
  /\ display_filters_[col] # {}
  /\ val_str \in display_filters_[col]

\* the `continue` of the visibility filter
filtered_out(col, val_str, display_filters_) ==
  /\ col \in DOMAIN display_filters_
  /\ display_filters_[col] # {}
  /\ val_str \notin display_filters_[col]

\* value = int(group[value_col].sum()) if value_col else int(len(group))
group_value(group, value_col_) ==
  IF value_col_ # None
    THEN SumSeq([i \in 1..Len(group) |-> group[i][value_col_]]) \div 2
    ELSE Len(group)

\* round(x) of Python 3 for x = num/den >= 0: nearest integer, ties to even.
\* The code rounds the float (value / total_count) * 100; the float and the
\* exact quotient round alike for every total_count below 40 (23/40 is the
\* first pair on which they differ), which covers the tables of the model.
round(num, den) ==
  LET q == num \div den
      r == num % den
  IN IF 2 * r < den THEN q
     ELSE IF 2 * r > den THEN q + 1
     ELSE IF q % 2 = 0 THEN q ELSE q + 1

\* mutant: the percentage rounded up instead of to the nearest integer
percentage_of_ceil(value, total_count) ==
  IF total_count > 0 THEN (100 * value + total_count - 1) \div total_count ELSE 0

\* percentage_raw = (value / total_count) * 100 if total_count > 0 else 0
\* percentage = round(percentage_raw)
percentage_of(value, total_count) ==
  IF total_count > 0 THEN round(100 * value, total_count) ELSE 0

\* mutant: the override tested with `elif`, so that a level colour wins over it
node_color_value_elif(level, col, val_str, color_mode_, uniform_color_, level_colors_, per_node_colors_) ==
  IF color_mode_ = "By Level" /\ level \in DOMAIN level_colors_
    THEN level_colors_[level]
    ELSE IF <<col, val_str>> \in DOMAIN per_node_colors_
           THEN per_node_colors_[<<col, val_str>>] ELSE uniform_color_

\* "Resolve node color" in add_node
node_color_value(level, col, val_str, color_mode_, uniform_color_, level_colors_, per_node_colors_) ==
  LET c1 == uniform_color_
      c2 == IF color_mode_ = "By Level" /\ level \in DOMAIN level_colors_
              THEN level_colors_[level] ELSE c1
  IN IF <<col, val_str>> \in DOMAIN per_node_colors_
       THEN per_node_colors_[<<col, val_str>>] ELSE c2

\* "Resolve color for root node" in build_tree
root_color_value(col, val_str, color_mode_, uniform_color_, level_colors_, per_node_colors_) ==
  LET root_level == 0
      c1 == uniform_color_
      c2 == IF color_mode_ = "By Level" /\ root_level \in DOMAIN level_colors_
              THEN level_colors_[root_level] ELSE c1
  IN IF <<col, val_str>> \in DOMAIN per_node_colors_
       THEN per_node_colors_[<<col, val_str>>] ELSE c2

\* the node dict, with "children" popped when empty
make_node(col, val_str, children, value, percentage, level, color, group) ==
  LET node == [name |-> col \o ": " \o val_str,
               value |-> value,
               percentage |-> percentage,
               level |-> level,
               column |-> col,
               node_value |-> val_str,
               color |-> color,
               raw_data |-> group]
  IN IF children = <<>> THEN node ELSE node @@ [children |-> children]

-----------------------------------------------------------------------------
(* build_tree                                                              *)

\* env: the variables of build_tree that the closure add_node reads
\* (hierarchy is 0-indexed in the code: hierarchy[level] is env.hierarchy[level + 1])
RECURSIVE add_node(_, _, _)
RECURSIVE add_node_loop(_, _, _, _)

add_node_loop(groups, level, k, env) ==
  IF k > Len(groups) THEN <<>>
  ELSE
    LET col == env.hierarchy[level + 1]
        val == groups[k].val
        group == groups[k].group
        val_str == val_str_of(val)
        rest == add_node_loop(groups, level, k + 1, env)
    IN IF filtered_out(col, val_str, env.display_filters) THEN rest
       ELSE
         LET value == group_value(group, env.value_col)
             percentage == percentage_of(value, env.total_count)
             color == node_color_value(level, col, val_str, env.color_mode,
                                       env.uniform_color, env.level_colors,
                                       env.per_node_colors)
             children == add_node(level + 1, group, env)
         IN <<make_node(col, val_str, children, value, percentage, level,
                        color, group)>> \o rest

\* add_node(level, parent, df_sub): the list appended to parent["children"]
add_node(level, df_sub, env) ==
  IF level >= Len(env.hierarchy) THEN <<>>
  ELSE add_node_loop(groupby(df_sub, env.hierarchy[level + 1]), level, 1, env)

RECURSIVE root_loop(_, _, _)
root_loop(groups, k, env) ==
  IF k > Len(groups) THEN <<>>
  ELSE
    LET col == env.hierarchy[1]
        val == groups[k].val
        group == groups[k].group
        val_str == val_str_of(val)
        rest == root_loop(groups, k + 1, env)
    IN IF filtered_out(col, val_str, env.display_filters) THEN rest
       ELSE
         LET value == group_value(group, env.value_col)
             percentage == percentage_of(value, env.total_count)
             color == root_color_value(col, val_str, env.color_mode,
                                       env.uniform_color, env.level_colors,
                                       env.per_node_colors)
             children == add_node(1, group, env)
         IN <<make_node(col, val_str, children, value, percentage, 0,
                        color, group)>> \o rest

\* total_count = len(df)
total_count_of(df_) == Len(df_)

build_tree(df_, hierarchy_, value_col_, color_mode_, uniform_color_, level_colors_, per_node_colors_, display_filters_) ==
  LET env == [hierarchy |-> hierarchy_,
              value_col |-> value_col_,
              total_count |-> total_count_of(df_),
              color_mode |-> color_mode_,
              uniform_color |-> uniform_color_,
              level_colors |-> level_colors_,
              per_node_colors |-> per_node_colors_,
              display_filters |-> display_filters_]
  IN IF hierarchy_ = <<>> THEN <<>>
     ELSE root_loop(groupby(df_, hierarchy_[1]), 1, env)

-----------------------------------------------------------------------------
(* The script run                                                          *)

\* mutant: the error is shown but the run is not stopped (st.stop() missing)
Validate_NoStop ==
  /\ pc = "config"
  /\ pc' = "validated"
  /\ error_shown' = (hierarchy = <<>>)
  /\ UNCHANGED <<config, tree_data, d3_tree_data, sidebar, client>>

\* lines 672-685: st.error(...); st.info(...); st.stop() when no column is selected
Validate ==
  /\ pc = "config"
  /\ IF hierarchy = <<>>
       THEN pc' = "stopped" /\ error_shown' = TRUE
       ELSE pc' = "validated" /\ error_shown' = FALSE
  /\ UNCHANGED <<config, tree_data, d3_tree_data, sidebar, client>>

\* lines 697-708 (time_comparison is fixed to "Day": updated_hierarchy = hierarchy)
BuildTree ==
  /\ pc = "validated"
  /\ tree_data' = build_tree(df, hierarchy, value_col, color_mode, uniform_color,
                             level_colors, per_node_colors, display_filters)
  /\ pc' = "built"
  /\ UNCHANGED <<config, error_shown, d3_tree_data, sidebar, client>>

\* mutant: the case of a single top-level node is missing, every forest is wrapped
wrap_root_always(tree_data_, df_) ==
  IF Len(tree_data_) > 0
    THEN [name |-> "Root",
          children |-> tree_data_,
          level |-> -1,
          value |-> SumSeq([i \in 1..Len(tree_data_) |-> tree_data_[i].value]),
          color |-> "#3B82F6",
          raw_data |-> df_]
    ELSE [name |-> "No Data", children |-> <<>>, level |-> 0, value |-> 0,
          color |-> "#9CA3AF", raw_data |-> <<>>]

\* lines 709-723
wrap_root(tree_data_, df_) ==
  IF Len(tree_data_) > 0
    THEN IF Len(tree_data_) = 1
           THEN tree_data_[1]
           ELSE [name |-> "Root",
                 children |-> tree_data_,
                 level |-> -1,
                 value |-> SumSeq([i \in 1..Len(tree_data_) |-> tree_data_[i].value]),
                 color |-> "#3B82F6",
                 raw_data |-> df_]
    ELSE [name |-> "No Data", children |-> <<>>, level |-> 0, value |-> 0,
          color |-> "#9CA3AF", raw_data |-> <<>>]

WrapRoot ==
  /\ pc = "built"
  /\ d3_tree_data' = wrap_root(tree_data, df)
  /\ pc' = "wrapped"
  /\ UNCHANGED <<config, error_shown, tree_data, sidebar, client>>

Next == Validate \/ BuildTree \/ WrapRoot

-----------------------------------------------------------------------------
(* Inputs                                                                  *)

RECURSIVE SeqsUpTo(_, _)
SeqsUpTo(S, n) ==
  IF n = 0 THEN {<<>>}
  ELSE LET shorter == SeqsUpTo(S, n - 1)
       IN shorter \cup {Append(s, x) : s \in {t \in shorter : Len(t) = n - 1}, x \in S}

Row(cells, v) == [c \in ColSet \cup {ValueCol} |-> IF c = ValueCol THEN v ELSE cells[c]]

\* agg_method "Count" sets df["__value__"] = 1 (2 halves)
CountRows == {Row(cells, 2) : cells \in [ColSet -> {NaN} \cup 1..NumKeys]}
SumRows == {Row(cells, v) : cells \in [ColSet -> {NaN} \cup 1..NumKeys], v \in 1..MaxHalves}

\* st.sidebar.multiselect: an ordered selection without repetition
Hierarchies == {<<>>} \cup {<<c>> : c \in ColSet}
                 \cup {h \in {<<c, d>> : c \in ColSet, d \in ColSet} : h[1] # h[2]}

Filters == {NoDict} \cup {[c \in {col} |-> {"1"}] : col \in ColSet}

\* the browser has no page yet
NoPage ==
  /\ data = NoTree
  /\ node_children = <<>>
  /\ _children = <<>>
  /\ manualOrder = FALSE
  /\ dragActive = FALSE
  /\ gesture = null
  /\ click = null
  /\ selectedNode = null
  /\ contextMenu = "none"
  /\ download = NoDownload
  /\ pending = <<>>
  /\ nodeDataContent = null

\* lines 653-658: the defaults of the two "Node Order" widgets
DefaultOrder ==
  /\ orderMode = "Custom (as-is)"
  /\ enableDragReorder = TRUE

\* lines 420-426: the default of the slider "Node Size:"
DefaultNodeSize == 17

StartRun ==
  /\ pc = "config"
  /\ node_size = DefaultNodeSize
  /\ error_shown = FALSE
  /\ tree_data = <<>>
  /\ d3_tree_data = NoTree
  /\ NoPage

DefaultColors ==
  /\ color_mode = "Uniform"
  /\ uniform_color = "#3B82F6"
  /\ level_colors = NoDict
  /\ per_node_colors = NoDict

Init ==
  /\ \/ value_col = None /\ df \in SeqsUpTo(CountRows, MaxRows)
     \/ value_col = ValueCol /\ df \in SeqsUpTo(SumRows, MaxRows)
  /\ hierarchy \in Hierarchies
  /\ display_filters \in Filters
  /\ DefaultColors
  /\ DefaultOrder
  /\ StartRun

Spec == Init /\ [][Next]_vars

-----------------------------------------------------------------------------
(* Tables of one varying column, for the sums of rounded percentages       *)

WideRows == {Row([c \in ColSet |-> IF c = "Region" THEN k ELSE 1], 2) :
               k \in {NaN} \cup 1..WideKeys}

InitPct ==
  /\ value_col \in {None, ValueCol}
  /\ df \in SeqsUpTo(WideRows, MaxWideRows)
  /\ hierarchy \in {<<"Region">>, <<"Status", "Region">>}
  /\ display_filters = NoDict
  /\ DefaultColors
  /\ DefaultOrder
  /\ StartRun

SpecPct == InitPct /\ [][Next]_vars

-----------------------------------------------------------------------------
(* Colour configurations                                                   *)

ColorModes == {"Uniform", "By Level", "Per Node (UI)", "Per Node (CSV)"}
LevelColorChoices == {NoDict, (0 :> "#1f77b4"), (0 :> "#1f77b4") @@ (1 :> "#ff7f0e")}
PerNodeChoices ==
  {NoDict} \cup {(<<c, v>> :> "#EF4444") : c \in ColSet, v \in {"1", "No Data"}}

InitColor ==
  /\ value_col = None
  /\ df \in SeqsUpTo(CountRows, MaxRows)
  /\ hierarchy \in Hierarchies
  /\ display_filters = NoDict
  /\ color_mode \in ColorModes
  /\ uniform_color = "#3B82F6"
  /\ level_colors \in LevelColorChoices
  /\ per_node_colors \in PerNodeChoices
  /\ DefaultOrder
  /\ StartRun

SpecColor == InitColor /\ [][Next]_vars

-----------------------------------------------------------------------------
(* Reading a tree                                                          *)

has_children(n) == "children" \in DOMAIN n
children_of(n) == IF has_children(n) THEN n.children ELSE <<>>

RECURSIVE NodesOf(_)
NodesOf(forest) ==
  UNION {{forest[i]} \cup NodesOf(children_of(forest[i])) : i \in 1..Len(forest)}

\* the sibling groups of a forest: the forest itself and every children list
SiblingGroups(forest) ==
  {forest} \cup {n.children : n \in {m \in NodesOf(forest) : has_children(m)}}

Range(s) == {s[i] : i \in 1..Len(s)}
Count(s, x) == Cardinality({i \in 1..Len(s) : s[i] = x})
ValuesOf(nodes) == [i \in 1..Len(nodes) |-> nodes[i].value]
PercentagesOf(nodes) == [i \in 1..Len(nodes) |-> nodes[i].percentage]

Built == pc = "built"
NoFilter == display_filters = NoDict

\* the column grouped at 0-based level l of the hierarchy
ColumnAt(l) == hierarchy[l + 1]
HasLevelBelow(n) == n.level + 1 < Len(hierarchy)

-----------------------------------------------------------------------------
(* C1: with no display filter, every node of the forest returned by        *)
(* build_tree that has children has a value equal to the sum of the values *)
(* of its direct children.                                                 *)

C1_ValueIsSumOfChildren ==
  (Built /\ NoFilter) =>
    \A n \in NodesOf(tree_data) :
      has_children(n) => n.value = SumSeq(ValuesOf(n.children))

(* C2: for every node that has a further hierarchy level below it, the     *)
(* raw_data of its children are pairwise disjoint and together are exactly *)
(* the node's raw_data (every row of the node is under exactly one child). *)
(* Stated for the unfiltered call, the only one the application makes      *)
(* (display_filters = None, line 407).                                     *)

C2_ChildrenPartitionRows ==
  (Built /\ NoFilter) =>
    \A n \in NodesOf(tree_data) :
      HasLevelBelow(n) =>
        LET kids == children_of(n)
        IN /\ \A i \in 1..Len(kids) : Range(kids[i].raw_data) \subseteq Range(n.raw_data)
           /\ \A row \in Range(n.raw_data) :
                Count(n.raw_data, row)
                  = SumSeq([i \in 1..Len(kids) |-> Count(kids[i].raw_data, row)])

IsNoDataNodeWith(n, col, row) ==
  /\ n.name = col \o ": No Data"
  /\ n.node_value = "No Data"
  /\ row \in Range(n.raw_data)

(* C3: a row with a null value in a hierarchy column is under a node named *)
(* "<column>: No Data" with node_value "No Data" at that column's level,   *)
(* below the row's ancestor groups; the row is never left out of the tree. *)
(* Stated for the unfiltered call.                                         *)

C3_NullGroupIsNoDataNode ==
  (Built /\ NoFilter /\ hierarchy # <<>>) =>
    /\ \A row \in Range(df) :
         isna(row[ColumnAt(0)]) =>
           \E i \in 1..Len(tree_data) : IsNoDataNodeWith(tree_data[i], ColumnAt(0), row)
    /\ \A n \in NodesOf(tree_data) :
         HasLevelBelow(n) =>
           \A row \in Range(n.raw_data) :
             isna(row[ColumnAt(n.level + 1)]) =>
               \E i \in 1..Len(children_of(n)) :
                 IsNoDataNodeWith(children_of(n)[i], ColumnAt(n.level + 1), row)

OverallTotal == SumSeq(ValuesOf(tree_data))

(* C4: the percentage of every node, at every depth, is                    *)
(* round(100 * node.value / T), T the sum of the values of the top-level   *)
(* groups.  Stated for the unfiltered call.                                *)

C4_PercentageOfOverallTotal ==
  (Built /\ NoFilter /\ OverallTotal > 0) =>
    \A n \in NodesOf(tree_data) : n.percentage = round(100 * n.value, OverallTotal)

(* C5: with no display filter and a non-empty hierarchy, the percentages   *)
(* of the n top-level nodes sum to a number in [100 - n, 100 + n].         *)
(* Stated for a non-empty forest.                                          *)

C5_TopLevelPercentagesNear100 ==
  (Built /\ NoFilter /\ tree_data # <<>>) =>
    LET n == Len(tree_data)
        total == SumSeq(PercentagesOf(tree_data))
    IN 100 - n <= total /\ total <= 100 + n

-----------------------------------------------------------------------------
(* C6, as claimed: in every sibling group at any depth (the children of    *)
(* one node, or the top-level forest) the integer percentages sum to at    *)
(* most 100.                                                               *)

-----------------------------------------------------------------------------
ColorByRule(n) ==
  CASE <<n.column, n.node_value>> \in DOMAIN per_node_colors
         -> per_node_colors[<<n.column, n.node_value>>]
    [] /\ <<n.column, n.node_value>> \notin DOMAIN per_node_colors
       /\ color_mode = "By Level"
       /\ n.level \in DOMAIN level_colors
         -> level_colors[n.level]
    [] OTHER -> uniform_color

(* C7: the colour of a node is the per-node override for                   *)
(* (column, node_value) whenever the override map has that key, in every   *)
(* colour mode; otherwise the per-level colour when the mode is "By Level" *)
(* and a colour exists for the node's level; otherwise the uniform colour. *)
(* The same rule holds for top-level nodes and for deeper nodes.           *)

C7_ColorPrecedence ==
  Built => \A n \in NodesOf(tree_data) : n.color = ColorByRule(n)

\* an override beats the level colour in "By Level" mode, below the top level,
\* while a sibling without override takes the level colour
C7_Witness ==
  /\ Built
  /\ color_mode = "By Level"
  /\ \E n \in NodesOf(tree_data), m \in NodesOf(tree_data) :
       /\ n.level = 1 /\ m.level = 1
       /\ 1 \in DOMAIN level_colors
       /\ <<n.column, n.node_value>> \in DOMAIN per_node_colors
       /\ n.color = per_node_colors[<<n.column, n.node_value>>]
       /\ n.color # level_colors[1]
       /\ m.color = level_colors[1]

-----------------------------------------------------------------------------
(* C8: with an empty hierarchy build_tree returns an empty forest for any  *)
(* table, and the application reports the validation failure and stops     *)
(* before build_tree is called: no tree is built or handed to the client.  *)

C8_EmptyHierarchyStops ==
  hierarchy = <<>> =>
    /\ build_tree(df, hierarchy, value_col, color_mode, uniform_color,
                  level_colors, per_node_colors, display_filters) = <<>>
    /\ pc \in {"config", "stopped"}
    /\ pc = "stopped" => error_shown
    /\ d3_tree_data = NoTree

\* the run has stopped on an empty hierarchy over a table that has rows
C8_Witness ==
  /\ hierarchy = <<>>
  /\ pc = "stopped"
  /\ error_shown
  /\ df # <<>>

-----------------------------------------------------------------------------
(* C9: the tree handed to the client has a single root: a forest of one    *)
(* node is used unchanged; a forest of several nodes becomes the children, *)
(* in order, of a synthetic root of level -1 whose value is the sum of the *)
(* top-level values; an empty forest gives a childless placeholder root of *)
(* value 0.                                                                *)

C9_SingleRoot ==
  pc = "wrapped" =>
    /\ Len(tree_data) = 1 => d3_tree_data = tree_data[1]
    /\ Len(tree_data) > 1 =>
         /\ d3_tree_data.level = -1
         /\ d3_tree_data.children = tree_data
         /\ d3_tree_data.value = SumSeq(ValuesOf(tree_data))
    /\ Len(tree_data) = 0 =>
         /\ d3_tree_data.children = <<>>
         /\ d3_tree_data.value = 0

\* a forest of two groups of different values has been wrapped
C9_Witness ==
  /\ pc = "wrapped"
  /\ Len(tree_data) = 2
  /\ tree_data[1].value # tree_data[2].value
  /\ d3_tree_data.name = "Root"

-----------------------------------------------------------------------------
(* Display filters                                                         *)

\* the display filter restricts column col to a non-empty allowed set
Restricted(col) == col \in DOMAIN display_filters /\ display_filters[col] # {}

\* row belongs to a group of column col that the filter excludes
Excluded(row, col) ==
  /\ Restricted(col)
  /\ ~isna(row[col])
  /\ str(row[col]) \notin display_filters[col]

NoNodeOutsideAllowedSet ==
  \A n \in NodesOf(tree_data) :
    Restricted(n.column) => n.node_value \in display_filters[n.column]

\* the levels of the hierarchy whose column is restricted
RestrictedLevels == {l \in 0..(Len(hierarchy) - 1) : Restricted(ColumnAt(l))}

NotExcludedBelow(row, n) ==
  \A l \in RestrictedLevels : l > n.level => ~Excluded(row, ColumnAt(l))

(* C10, as claimed: no node at the level of a restricted column for a      *)
(* group value outside the allowed set, and the rows of the excluded       *)
(* groups are counted neither in a descendant nor in the value of an       *)
(* ancestor of the excluded group.                                         *)

RECURSIVE HoldsAllRowsOfGroup(_, _)
HoldsAllRowsOfGroup(forest, scope) ==
  \A i \in 1..Len(forest) :
    LET n == forest[i]
    IN /\ n.raw_data = SelectSeq(scope, LAMBDA row : /\ ~isna(row[n.column])
                                                     /\ str(row[n.column]) = n.node_value)
       /\ n.value = group_value(n.raw_data, value_col)
       /\ HoldsAllRowsOfGroup(children_of(n), n.raw_data)

(* C10, amended: no node at the level of a restricted column for a group   *)
(* value outside the allowed set, and no node at or below that level holds *)
(* a row of an excluded group; the ancestors of an excluded group keep its *)
(* rows: every node holds exactly the rows of its parent (of the table,    *)
(* for a top-level node) whose cell in the node's column is the node's     *)
(* value, and its value is computed over all of them.                      *)

-----------------------------------------------------------------------------
(* The page.                                                               *)
(*                                                                         *)
(* A Node of d3.hierarchy(data) is named by the path of its datum in data: *)
(* the 1-based positions, in the "children" lists of data, that lead from  *)
(* the root to it.  The path of a node never changes, whatever the order   *)
(* of the arrays that hold the node.  expandAll replaces the Node objects  *)
(* below root by the nodes of a new hierarchy of the same data; the old    *)
(* objects are then unreachable (a node click or a toolbar click hides the *)
(* context menu, so that selectedNode is only read while it is a node of   *)
(* root), and the new node of a path stands in for the old one.            *)

root == <<>>
depth(d) == Len(d)
parent(d) == SubSeq(d, 1, Len(d) - 1)

RECURSIVE datum(_, _)
datum(tree, d) == IF d = <<>> THEN tree ELSE datum(tree.children[Head(d)], Tail(d))

RECURSIVE PathsUnder(_, _)
PathsUnder(tree, d) ==
  {d} \cup UNION {PathsUnder(tree.children[i], Append(d, i)) : i \in 1..Len(children_of(tree))}

\* d3.hierarchy(tree): the children array of every node, in the order of the data;
\* a node whose datum has no children (or an empty list) gets no array
d3_hierarchy(tree) ==
  [d \in PathsUnder(tree, <<>>) |-> [i \in 1..Len(children_of(datum(tree, d))) |-> Append(d, i)]]

\* node.descendants(): the nodes reached through .children, breadth first
RECURSIVE breadth_first(_, _)
breadth_first(shown, queue) ==
  IF queue = <<>> THEN <<>>
  ELSE <<Head(queue)>> \o breadth_first(shown, Tail(queue) \o shown[Head(queue)])

descendants(shown, d) == breadth_first(shown, <<d>>)

\* (a.data.name || "").toString().toLowerCase() compared by localeCompare: the
\* names of two siblings are "<column>: <val_str>" of one column, and val_str is
\* a digit, which lower-casing leaves alone: the names compare as the digits do
name_rank(tree, d) == CHOOSE i \in 1..Len(Digits) : Digits[i] = datum(tree, d).node_value

\* mutant: "Value Desc" compares as "Value Asc" does
compareNodes_desc_as_asc(tree, mode, a, b) ==
  LET nameA == name_rank(tree, a)
      nameB == name_rank(tree, b)
      valA == datum(tree, a).value
      valB == datum(tree, b).value
  IN CASE mode = "Name A→Z" -> nameA - nameB
       [] mode = "Name Z→A" -> nameB - nameA
       [] mode = "Value Asc" -> valA - valB
       [] mode = "Value Desc" -> valA - valB
       [] OTHER -> 0

\* lines 822-832
compareNodes(tree, mode, a, b) ==
  LET nameA == name_rank(tree, a)
      nameB == name_rank(tree, b)
      valA == datum(tree, a).value
      valB == datum(tree, b).value
  IN CASE mode = "Name A→Z" -> nameA - nameB
       [] mode = "Name Z→A" -> nameB - nameA
       [] mode = "Value Asc" -> valA - valB
       [] mode = "Value Desc" -> valB - valA
       [] OTHER -> 0

\* arr.sort(compareNodes): Array.prototype.sort is stable
RECURSIVE array_sort(_, _, _)
array_sort(tree, mode, arr) ==
  IF arr = <<>> THEN <<>>
  ELSE LET front == array_sort(tree, mode, SubSeq(arr, 1, Len(arr) - 1))
           last == arr[Len(arr)]
           k == Cardinality({i \in 1..Len(front) : compareNodes(tree, mode, front[i], last) <= 0})
       IN SubSeq(front, 1, k) \o <<last>> \o SubSeq(front, k + 1, Len(front))

\* lines 834-841: sortArray sorts an array and then the children and _children
\* arrays of its elements, that is: every array below it.  The arrays are those
\* d3.hierarchy made, one per node with children.
sortArray(tree, mode, arrays) == [d \in DOMAIN arrays |-> array_sort(tree, mode, arrays[d])]

\* lines 843-847
applyInitialSort(tree, mode, manualOrder_, arrays) ==
  IF mode = "Custom (as-is)" \/ manualOrder_ THEN arrays ELSE sortArray(tree, mode, arrays)

-----------------------------------------------------------------------------
(* The script of the page and its handlers                                 *)

Nodes == DOMAIN _children
visible == descendants(node_children, root)
VisibleSet == LET nodes == visible IN {nodes[i] : i \in 1..Len(nodes)}

\* no pointer gesture is under way: the next event is a new user action
Idle == pc = "page" /\ gesture = null /\ click = null

\* mutant: the initial collapse starts one level too high (d.depth > 0)
initial_children_from_depth_1(arrays) ==
  [d \in DOMAIN arrays |-> IF depth(d) > 0 THEN null ELSE arrays[d]]

\* lines 1112-1116: d._children = d.children; if (d.depth > 1) d.children = null
initial_children(arrays) ==
  [d \in DOMAIN arrays |-> IF depth(d) > 1 THEN null ELSE arrays[d]]

-----------------------------------------------------------------------------
(* The tree as a JSON literal (lines 725-741)                              *)

\* The header of a column that is not a string: a header cell of a spreadsheet
\* that holds a date is read as a datetime, and DataFrame.to_dict('records')
\* makes it a key of every record of raw_data.
DateHeader == "datetime(2024, 1, 1)"

\* lines 10-36: a list and a dict are rebuilt with their values converted and
\* their keys kept (`{k: convert(v) for k, v in obj.items()}`); a str, an int and
\* a float, the values of the model (NaN is a float), are returned as they are
convert_pandas_to_json_serializable(obj) == obj

\* json.dumps raises TypeError ("keys must be str, int, float, bool or None") on
\* a dict with another key, wherever in the structure the dict is
RECURSIVE json_dumps_raises(_)
json_dumps_raises(obj) ==
  \/ \E i \in 1..Len(obj.raw_data) : DateHeader \in DOMAIN obj.raw_data[i]
  \/ \E i \in 1..Len(children_of(obj)) : json_dumps_raises(obj.children[i])

\* lines 732-740: the keys of the root only; "children" is the list of the
\* original child dicts
d3_tree_data_simple(tree) ==
  [name |-> tree.name,
   children |-> children_of(tree),
   level |-> tree.level,
   value |-> tree.value,
   color |-> tree.color,
   raw_data |-> <<>>]

\* an exception that leaves the script
Raised == [name |-> "<TypeError>"]

\* lines 725-741: the value of tree_data_json (the object the literal denotes),
\* or Raised when the json.dumps of the except branch raises too
tree_data_json(tree) ==
  LET d3_tree_data_serializable == convert_pandas_to_json_serializable(tree)
  IN IF ~json_dumps_raises(d3_tree_data_serializable)
       THEN d3_tree_data_serializable
       ELSE IF ~json_dumps_raises(d3_tree_data_simple(tree))
              THEN d3_tree_data_simple(tree)
              ELSE Raised

\* mutant: the arrays the page sorts are the lists of the literal
RECURSIVE page_data_sorted(_, _)
page_data_sorted(tree, mode) ==
  IF children_of(tree) = <<>> THEN tree
  ELSE LET n == Len(tree.children)
           arr == array_sort(tree, mode, [i \in 1..n |-> <<i>>])
       IN [tree EXCEPT !.children =
             [i \in 1..n |-> page_data_sorted(tree.children[arr[i][1]], mode)]]

\* lines 788 and 1105-1116: `const data` after the script of the page has run.
\* d3.hierarchy(data) gives every Node an array of its own (Array.from of the
\* children of the datum) and sortArray sorts these arrays: the lists of data
\* keep the order of the literal.
page_data(tree, mode) == tree

\* lines 725-2421 and 2444: the tree is serialised and the page is rendered with
\* it as the literal "data"; lines 1101-1119 and 2401 are the script of the page
\* up to the first update(root).  children and _children of a node are one array
\* until a handler stores another one, so that applyInitialSort, which sorts the
\* arrays in place, orders both.  An exception that leaves the script ends the
\* run without a new page.
LoadPage ==
  /\ pc = "wrapped"
  /\ error_shown' =
       (error_shown \/ json_dumps_raises(convert_pandas_to_json_serializable(d3_tree_data)))
  /\ IF tree_data_json(d3_tree_data) = Raised
       THEN /\ pc' = "crashed"
            /\ UNCHANGED client
       ELSE /\ pc' = "page"
            /\ data' = page_data(tree_data_json(d3_tree_data), orderMode)
            /\ LET arrays == applyInitialSort(data', orderMode, FALSE, d3_hierarchy(data'))
               IN /\ _children' = arrays
                  /\ node_children' = initial_children(arrays)
            /\ manualOrder' = FALSE
            /\ dragActive' = FALSE
            /\ gesture' = null
            /\ click' = null
            /\ selectedNode' = null
            /\ contextMenu' = "none"
            /\ download' = NoDownload
            /\ pending' = <<>>
            /\ nodeDataContent' = null
  /\ UNCHANGED <<config, tree_data, d3_tree_data, sidebar>>

\* mutant: a collapsed node is not expanded again
toggle_collapse_only(shown, hidden, d) ==
  IF hidden[d] # null
    THEN [shown EXCEPT ![d] = null]
    ELSE shown

\* lines 2298-2300: if (d._children) d.children = d.children ? null : d._children
toggle(shown, hidden, d) ==
  IF hidden[d] # null
    THEN [shown EXCEPT ![d] = IF shown[d] # null THEN null ELSE hidden[d]]
    ELSE shown

\* lines 2295-2303, then the listener of line 2227 on the document
click_handler(d, defaultPrevented) ==
  /\ node_children' = IF dragActive \/ defaultPrevented
                        THEN node_children
                        ELSE toggle(node_children, _children, d)
  /\ contextMenu' = "none"

\* a click on a visible node of a page without drag & drop (line 2386: no drag
\* behaviour is attached)
Click ==
  /\ Idle
  /\ ~enableDragReorder
  /\ \E d \in VisibleSet : click_handler(d, FALSE)
  /\ UNCHANGED <<pc, config, error_shown, tree_data, d3_tree_data, sidebar, pending, nodeDataContent>>
  /\ UNCHANGED <<data, _children, manualOrder, dragActive, gesture, click,
                 selectedNode, download>>

-----------------------------------------------------------------------------
(* Drag & drop (d3.drag, lines 2334-2391)                                  *)

\* line 1102: the vertical step of tree = d3.tree().nodeSize([dx, dy])
dx == 44

index_of(arr, s) == CHOOSE i \in 1..Len(arr) : arr[i] = s

\* s.x as the last update left it: tree(root) lays the nodes of one children
\* array out in the order of the array, at least dx apart.  Only the order of
\* the positions of siblings is read (line 2360 and 2363), so that the k-th node
\* of an array is put at k * dx.
x_in(container, s) == index_of(container, s) * dx

\* where the pointer can be at the end of a gesture on d: on the node itself
\* (within its shape, nearer to d.x than to a neighbour) when the pointer has
\* not moved, anywhere along the siblings when it has
PointerYs(container, d, moved) ==
  LET near(pos) == {pos - 1, pos, pos + 1}
  IN IF moved
       THEN UNION {near(i * dx) : i \in 1..Len(container)}
       ELSE near(x_in(container, d))

\* .sort((a, b) => a.x - b.x)
RECURSIVE sort_by_x(_, _)
sort_by_x(container, arr) ==
  IF arr = <<>> THEN <<>>
  ELSE LET front == sort_by_x(container, SubSeq(arr, 1, Len(arr) - 1))
           last == arr[Len(arr)]
           k == Cardinality({i \in 1..Len(front) :
                               x_in(container, front[i]) - x_in(container, last) <= 0})
       IN SubSeq(front, 1, k) \o <<last>> \o SubSeq(front, k + 1, Len(front))

\* mutant: the dragged node is put after the first sibling below the pointer
newOrder_after(container, d, py) ==
  LET siblings == sort_by_x(container, SelectSeq(container, LAMBDA s : s # d))
      below == {i \in 1..Len(siblings) : py < x_in(container, siblings[i])}
      dropIndex == IF below = {} THEN Len(siblings)
                   ELSE (CHOOSE i \in below : \A j \in below : i <= j)
  IN SubSeq(siblings, 1, dropIndex) \o <<d>> \o SubSeq(siblings, dropIndex + 1, Len(siblings))

\* lines 2359-2366: siblings, dropIndex (0-based: the number of siblings that
\* come before d) and newOrder
newOrder(container, d, py) ==
  LET siblings == sort_by_x(container, SelectSeq(container, LAMBDA s : s # d))
      below == {i \in 1..Len(siblings) : py < x_in(container, siblings[i])}
      dropIndex == IF below = {} THEN Len(siblings)
                   ELSE (CHOOSE i \in below : \A j \in below : i <= j) - 1
  IN SubSeq(siblings, 1, dropIndex) \o <<d>> \o SubSeq(siblings, dropIndex + 1, Len(siblings))

\* lines 2335-2341: the pointer goes down on a visible node
DragStart ==
  /\ Idle
  /\ enableDragReorder
  /\ \E d \in VisibleSet : gesture' = <<[node |-> d, moved |-> FALSE]>>
  /\ dragActive' = TRUE
  /\ UNCHANGED <<pc, config, error_shown, tree_data, d3_tree_data, sidebar, pending, nodeDataContent>>
  /\ UNCHANGED <<data, node_children, _children, manualOrder, click, selectedNode,
                 contextMenu, download>>

\* lines 2342-2346: the pointer moves; only the element is moved
Drag ==
  /\ pc = "page"
  /\ gesture # null
  /\ gesture' = <<[gesture[1] EXCEPT !.moved = TRUE]>>
  /\ UNCHANGED <<pc, config, error_shown, tree_data, d3_tree_data, sidebar, pending, nodeDataContent>>
  /\ UNCHANGED <<data, node_children, _children, manualOrder, dragActive, click,
                 selectedNode, contextMenu, download>>

\* mutant: the flag is never set
sets_manualOrder_never(d) == FALSE

\* lines 2353-2355: const parent = d.parent; if (!parent) return; manualOrder = true
sets_manualOrder(d) == d # root

\* lines 2347-2372: the pointer is released.  The browser then dispatches the
\* click of the press and release; d3-drag lets it through when the pointer
\* has not moved and stops it in a capturing listener when it has.
DragEnd ==
  /\ pc = "page"
  /\ gesture # null
  /\ LET d == gesture[1].node
         moved == gesture[1].moved
     IN /\ dragActive' = FALSE
        /\ manualOrder' = (manualOrder \/ sets_manualOrder(d))
        /\ IF d = root
             THEN UNCHANGED <<node_children, _children>>
             ELSE LET shown == node_children[parent(d)] # null
                      container == IF shown THEN node_children[parent(d)]
                                   ELSE _children[parent(d)]
                  IN IF container = null
                       THEN UNCHANGED <<node_children, _children>>
                       ELSE \E py \in PointerYs(container, d, moved) :
                              IF shown
                                THEN /\ node_children' = [node_children EXCEPT
                                          ![parent(d)] = newOrder(container, d, py)]
                                     /\ UNCHANGED _children
                                ELSE /\ _children' = [_children EXCEPT
                                          ![parent(d)] = newOrder(container, d, py)]
                                     /\ UNCHANGED node_children
        /\ click' = <<[node |-> d, moved |-> moved]>>
  /\ gesture' = null
  /\ UNCHANGED <<pc, config, error_shown, tree_data, d3_tree_data, sidebar, pending, nodeDataContent>>
  /\ UNCHANGED <<data, selectedNode, contextMenu, download>>

\* mutant: d3-drag lets every click through
d3_drag_stops_click_never(moved) == FALSE

\* d3.drag() (d3 v7, line 758): on mouseup the behaviour keeps the click of the
\* gesture away from every other listener exactly when the pointer has moved
\* since mousedown
d3_drag_stops_click(moved) == moved

\* the click that follows the release: stopped by d3-drag before any listener
\* of the page, or handled by the node (lines 2295-2303)
DeliverClick ==
  /\ pc = "page"
  /\ click # null
  /\ IF d3_drag_stops_click(click[1].moved)
       THEN UNCHANGED <<node_children, contextMenu>>
       ELSE click_handler(click[1].node, FALSE)
  /\ click' = null
  /\ UNCHANGED <<pc, config, error_shown, tree_data, d3_tree_data, sidebar, pending, nodeDataContent>>
  /\ UNCHANGED <<data, _children, manualOrder, dragActive, gesture, selectedNode,
                 download>>

-----------------------------------------------------------------------------
(* The toolbar (lines 1077-1097); a click on a button reaches the listener *)
(* of line 2227 too, which hides the context menu                          *)

\* mutant: only the children of root are restored
restoreChildren_root_only(shown, complete) ==
  IF complete[root] # null
    THEN [d \in DOMAIN shown |-> IF d = root THEN complete[d] ELSE shown[d]]
    ELSE shown

\* lines 1156-1171: restoreChildren(root, completeRoot) stores the children
\* array of completeRoot in root.children and root._children, and then does the
\* same on each node of that array with the node itself as completeNode (it
\* is children[index] of both), which stores the node's own array in its
\* children and _children
restoreChildren(shown, complete) ==
  IF complete[root] # null THEN complete ELSE shown

\* lines 1151-1175
ExpandAll ==
  /\ Idle
  /\ LET completeRoot == d3_hierarchy(data)
     IN /\ node_children' = restoreChildren(node_children, completeRoot)
        /\ _children' = restoreChildren(_children, completeRoot)
  /\ contextMenu' = "none"
  /\ UNCHANGED <<pc, config, error_shown, tree_data, d3_tree_data, sidebar, pending, nodeDataContent>>
  /\ UNCHANGED <<data, manualOrder, dragActive, gesture, click, selectedNode, download>>

\* lines 1197-1199: d._children = d.children on the nodes of root.descendants()
\* that have children
stash_descendants(shown, hidden) ==
  LET nodes == descendants(shown, root)
      reached == {nodes[i] : i \in 1..Len(nodes)}
  IN [d \in DOMAIN shown |-> IF d \in reached /\ shown[d] # null THEN shown[d] ELSE hidden[d]]

\* lines 1197-1200: d.children = null on the same nodes
collapse_descendants(shown) ==
  LET nodes == descendants(shown, root)
      reached == {nodes[i] : i \in 1..Len(nodes)}
  IN [d \in DOMAIN shown |-> IF d \in reached THEN null ELSE shown[d]]

\* lines 1196-1203
CollapseAll ==
  /\ Idle
  /\ _children' = stash_descendants(node_children, _children)
  /\ node_children' = collapse_descendants(node_children)
  /\ contextMenu' = "none"
  /\ UNCHANGED <<pc, config, error_shown, tree_data, d3_tree_data, sidebar, pending, nodeDataContent>>
  /\ UNCHANGED <<data, manualOrder, dragActive, gesture, click, selectedNode, download>>

-----------------------------------------------------------------------------
(* Exports                                                                 *)

\* mutant: the complete-tree export draws the tree as it is on screen
complete_nodes_as_shown(tree) == descendants(node_children, root)

\* lines 1244-1253 (and 1387-1396, 1532-1541, 1656-1665): the nodes a
\* complete-tree export draws; a node of a new hierarchy has no _children
complete_nodes(tree) == descendants(d3_hierarchy(tree), root)

\* lines 1788-1794 (and 1927-1933): root.copy() is the hierarchy of the nodes
\* reached through .children
current_nodes(shown) == descendants(shown, root)

\* mutant: the complete export expands the tree on screen to draw it
root_after_export_expanded(shown, tree) == d3_hierarchy(tree)

\* lines 1244 and 1788 (and 1387, 1532, 1656, 1927): an export draws
\* exportRoot = d3.hierarchy(data) or currentRoot = root.copy(), nodes of its
\* own, and lays these out; the children of the nodes of root stay as they are
root_after_export(shown, tree) == shown

\* lines 1530-1652 and 1654-1783: the two "Complete Tree" SVG buttons, transparent
\* or white; the file is handed to the browser before the handler returns
DownloadComplete ==
  /\ Idle
  /\ download' = [kind |-> "complete", nodes |-> complete_nodes(data), rows |-> <<>>,
                  tree |-> NoTree]
  /\ node_children' = root_after_export(node_children, data)
  /\ contextMenu' = "none"
  /\ UNCHANGED <<pc, config, error_shown, tree_data, d3_tree_data, sidebar, pending, nodeDataContent>>
  /\ UNCHANGED <<data, _children, manualOrder, dragActive, gesture, click, selectedNode>>

\* lines 1925-2043: the "Current View" SVG button
DownloadCurrentView ==
  /\ Idle
  /\ download' = [kind |-> "current_view", nodes |-> current_nodes(node_children),
                  rows |-> <<>>, tree |-> NoTree]
  /\ node_children' = root_after_export(node_children, data)
  /\ contextMenu' = "none"
  /\ UNCHANGED <<pc, config, error_shown, tree_data, d3_tree_data, sidebar, pending, nodeDataContent>>
  /\ UNCHANGED <<data, _children, manualOrder, dragActive, gesture, click, selectedNode>>

\* PNG exports whose callbacks have not run yet
MaxPending == 1

\* lines 1364-1368 (and 1510-1513, 1905-1908): the handler of a PNG button draws
\* the nodes into tempSvg, serialises it (svgData) and gives the image a URL of a
\* blob of that text; the file is produced later, by two callbacks
png_started(kind, nodes) == [kind |-> kind, svgData |-> nodes, stage |-> "loading"]

\* lines 1242-1383 and 1385-1528: the two "Complete Tree" PNG buttons
DownloadCompletePNG ==
  /\ Idle
  /\ Len(pending) < MaxPending
  /\ pending' = Append(pending, png_started("complete", complete_nodes(data)))
  /\ node_children' = root_after_export(node_children, data)
  /\ contextMenu' = "none"
  /\ UNCHANGED <<pc, config, error_shown, tree_data, d3_tree_data, sidebar, nodeDataContent>>
  /\ UNCHANGED <<data, _children, manualOrder, dragActive, gesture, click, selectedNode,
                 download>>

\* lines 1786-1923: the "Current View" PNG button
DownloadCurrentViewPNG ==
  /\ Idle
  /\ Len(pending) < MaxPending
  /\ pending' = Append(pending, png_started("current_view", current_nodes(node_children)))
  /\ node_children' = root_after_export(node_children, data)
  /\ contextMenu' = "none"
  /\ UNCHANGED <<pc, config, error_shown, tree_data, d3_tree_data, sidebar, nodeDataContent>>
  /\ UNCHANGED <<data, _children, manualOrder, dragActive, gesture, click, selectedNode,
                 download>>

\* mutant: the image is drawn from the tree as it is when the callback runs
drawn_nodes_live(image, shown) ==
  IF image.kind = "complete" THEN image.svgData ELSE current_nodes(shown)

\* lines 1370-1372 (and 1515-1517, 1910-1912): ctx.drawImage(img, ...) draws the
\* image decoded from the blob of svgData; neither the live tree nor tempSvg is
\* read by the callbacks
drawn_nodes(image, shown) == image.svgData

\* img.onload: the image is drawn on the canvas and canvas.toBlob is called.
\* The callbacks are tasks of the page: they run between any two handlers, and
\* also while the pointer is held down on a node.
ImageLoaded ==
  /\ pc = "page"
  /\ \E i \in 1..Len(pending) :
       /\ pending[i].stage = "loading"
       /\ pending' = [pending EXCEPT ![i] =
                        [kind |-> pending[i].kind,
                         svgData |-> drawn_nodes(pending[i], node_children),
                         stage |-> "encoding"]]
  /\ UNCHANGED <<pc, config, error_shown, tree_data, d3_tree_data, sidebar, nodeDataContent>>
  /\ UNCHANGED <<data, node_children, _children, manualOrder, dragActive, gesture,
                 click, selectedNode, contextMenu, download>>

\* the callback of canvas.toBlob (lines 1373-1380, 1518-1525, 1913-1920): the
\* encoded canvas is handed to the browser.  link is not in the document: its
\* click reaches no listener of the page.
BlobReady ==
  /\ pc = "page"
  /\ \E i \in 1..Len(pending) :
       /\ pending[i].stage = "encoding"
       /\ download' = [kind |-> pending[i].kind, nodes |-> pending[i].svgData,
                       rows |-> <<>>, tree |-> NoTree]
       /\ pending' = SubSeq(pending, 1, i - 1) \o SubSeq(pending, i + 1, Len(pending))
  /\ UNCHANGED <<pc, config, error_shown, tree_data, d3_tree_data, sidebar, nodeDataContent>>
  /\ UNCHANGED <<data, node_children, _children, manualOrder, dragActive, gesture,
                 click, selectedNode, contextMenu>>

\* lines 2304-2306 and 2046-2058: a right click on a visible node
ShowContextMenu ==
  /\ Idle
  /\ \E d \in VisibleSet : selectedNode' = <<d>>
  /\ contextMenu' = "block"
  /\ UNCHANGED <<pc, config, error_shown, tree_data, d3_tree_data, sidebar, pending, nodeDataContent>>
  /\ UNCHANGED <<data, node_children, _children, manualOrder, dragActive, gesture,
                 click, download>>

RECURSIVE concat_raw_data(_, _)
concat_raw_data(tree, nodes) ==
  IF nodes = <<>> THEN <<>>
  ELSE datum(tree, Head(nodes)).raw_data \o concat_raw_data(tree, Tail(nodes))

\* lines 2155-2173: the rows of the node, then the rows of every node of
\* node.descendants() but the node itself
getNodeData(tree, shown, node) == concat_raw_data(tree, descendants(shown, node))

\* Thrown by a handler: the read of a property of null
TypeError == [kind |-> "TypeError", nodes |-> <<>>, rows |-> <<>>, tree |-> NoTree]

\* mutant: the handler reads selectedNode without testing it
downloadNodeData_unguarded(tree, shown, selected, last) ==
  IF selected = null THEN TypeError
  ELSE [kind |-> "node_data", nodes |-> <<>>,
        rows |-> getNodeData(tree, shown, selected[1]), tree |-> NoTree]

\* lines 2069-2107: downloadNodeData and downloadNodeDataExcel, as the file the
\* browser holds after the call (last: the one it held before)
downloadNodeData(tree, shown, selected, last) ==
  IF selected = null THEN last
  ELSE [kind |-> "node_data", nodes |-> <<>>,
        rows |-> getNodeData(tree, shown, selected[1]), tree |-> NoTree]

\* A menu item can be clicked while the menu is shown.  The handlers are global
\* functions of the page (onclick attributes, lines 1058-1068): while no node has
\* been selected the menu is hidden, and a call of a handler then comes from a
\* script and not from the pointer.
MenuItemCalled == Idle /\ (contextMenu = "block" \/ selectedNode = null)

\* lines 2069-2107: the two "Download Node Data" items of the context menu
DownloadNodeData ==
  /\ MenuItemCalled
  /\ download' = downloadNodeData(data, node_children, selectedNode, download)
  /\ contextMenu' = "none"
  /\ UNCHANGED <<pc, config, error_shown, tree_data, d3_tree_data, sidebar, pending, nodeDataContent>>
  /\ UNCHANGED <<data, node_children, _children, manualOrder, dragActive, gesture,
                 click, selectedNode>>

\* lines 2109-2126: the text showNodeDetails writes into the panel.
\* nodeDataPanel is assigned with contextMenu by the first showContextMenu
\* (lines 2050-2053): it is null exactly while selectedNode is.
showNodeDetails(tree, shown, selected, content) ==
  IF selected = null THEN content
  ELSE <<[name |-> datum(tree, selected[1]).name,
          value |-> datum(tree, selected[1]).value,
          records |-> Len(getNodeData(tree, shown, selected[1]))]>>

\* lines 2109-2135: the item "Show Node Details".  The panel is displayed at
\* line 2127 and hidden again by hideContextMenu at line 2134 (and by the click
\* listener of the document), so that only its text remains.
ShowNodeDetails ==
  /\ MenuItemCalled
  /\ nodeDataContent' = showNodeDetails(data, node_children, selectedNode, nodeDataContent)
  /\ contextMenu' = "none"
  /\ UNCHANGED <<pc, config, error_shown, tree_data, d3_tree_data, sidebar, pending>>
  /\ UNCHANGED <<data, node_children, _children, manualOrder, dragActive, gesture,
                 click, selectedNode, download>>

\* the keys getNodeSubtree copies from the datum; JSON.stringify leaves out a
\* key whose value is undefined (column and node_value of "Root" and "No Data")
SubtreeKeys == {"name", "value", "level", "column", "node_value", "color"}

\* mutant: the subtree of the datum, whatever is collapsed, in the order of data
RECURSIVE getNodeSubtree_of_data(_, _, _)
getNodeSubtree_of_data(tree, shown, node) ==
  LET d == datum(tree, node)
      arr == d3_hierarchy(tree)[node]
  IN [k \in (SubtreeKeys \cap DOMAIN d) \cup {"children"} |->
        IF k = "children"
          THEN [i \in 1..Len(arr) |-> getNodeSubtree_of_data(tree, shown, arr[i])]
          ELSE d[k]]

\* lines 2175-2195
RECURSIVE getNodeSubtree(_, _, _)
getNodeSubtree(tree, shown, node) ==
  LET d == datum(tree, node)
  IN [k \in (SubtreeKeys \cap DOMAIN d) \cup {"children"} |->
        IF k = "children"
          THEN [i \in 1..Len(shown[node]) |-> getNodeSubtree(tree, shown, shown[node][i])]
          ELSE d[k]]

\* lines 2137-2153, as the file the browser holds after the call
downloadNodeTree(tree, shown, selected, last) ==
  IF selected = null THEN last
  ELSE [kind |-> "node_tree", nodes |-> <<>>, rows |-> <<>>,
        tree |-> getNodeSubtree(tree, shown, selected[1])]

\* lines 2137-2153: the item "Download Node Tree"
DownloadNodeTree ==
  /\ MenuItemCalled
  /\ download' = downloadNodeTree(data, node_children, selectedNode, download)
  /\ contextMenu' = "none"
  /\ UNCHANGED <<pc, config, error_shown, tree_data, d3_tree_data, sidebar, pending, nodeDataContent>>
  /\ UNCHANGED <<data, node_children, _children, manualOrder, dragActive, gesture,
                 click, selectedNode>>

-----------------------------------------------------------------------------
(* Pages: tables of three hierarchy columns, so that the tree has nodes    *)
(* with children below depth 1                                             *)

PageCols == <<"Region", "Status", "PIC">>

PageRow(r, s, p) ==
  [c \in {"Region", "Status", "PIC", ValueCol} |->
     CASE c = "Region" -> r [] c = "Status" -> s [] c = "PIC" -> p [] OTHER -> 2]

\* Root over two regions of different size
TwoRegions == <<PageRow(1, 1, 1), PageRow(1, 1, 2), PageRow(1, 2, 1), PageRow(2, 1, 1)>>
\* one region, which is the root itself
OneRegion == <<PageRow(1, 1, 1), PageRow(1, 2, 1), PageRow(1, 2, 2)>>
\* Root over three regions, two of them without a node at depth 3
ThreeRegions ==
  <<PageRow(1, 1, NaN), PageRow(2, 1, NaN), PageRow(3, 1, 1), PageRow(3, 1, 1)>>
\* no region at all, which gives the "No Data" root
NoRegion == <<PageRow(NaN, 1, 1)>>

PageTables == {TwoRegions, OneRegion, ThreeRegions, NoRegion}

\* line 655
OrderModes == {"Custom (as-is)", "Name A→Z", "Name Z→A", "Value Asc", "Value Desc"}

InitPage ==
  /\ value_col = None
  /\ df \in PageTables
  /\ hierarchy = PageCols
  /\ display_filters = NoDict
  /\ DefaultColors
  /\ orderMode \in OrderModes
  /\ enableDragReorder \in BOOLEAN
  /\ StartRun

\* the script run and the page; the only user action is a press and release on
\* a node without a move of the pointer
NextToggle ==
  \/ Validate \/ BuildTree \/ WrapRoot \/ LoadPage
  \/ Click \/ DragStart \/ DragEnd \/ DeliverClick

SpecToggle == InitPage /\ [][NextToggle]_vars

\* ... and every action on the tree
NextTree ==
  \/ Validate \/ BuildTree \/ WrapRoot \/ LoadPage
  \/ Click \/ DragStart \/ Drag \/ DragEnd \/ DeliverClick
  \/ ExpandAll \/ CollapseAll

SpecTree == InitPage /\ [][NextTree]_vars

\* ... and the exports
NextPage ==
  \/ Validate \/ BuildTree \/ WrapRoot \/ LoadPage
  \/ Click \/ DragStart \/ Drag \/ DragEnd \/ DeliverClick
  \/ ExpandAll \/ CollapseAll
  \/ DownloadComplete \/ DownloadCurrentView \/ ShowContextMenu \/ DownloadNodeData

\* the pages of the exports: a tree of one region (the root) and the "No Data"
\* root, with one sort mode that reorders the tree
InitExport ==
  /\ InitPage
  /\ df \in {OneRegion, NoRegion}
  /\ orderMode = "Value Desc"

SpecExport == InitExport /\ [][NextPage]_vars

\* line 420-426: two positions of the slider "Node Size:"
NodeSizes == {DefaultNodeSize, DefaultNodeSize + 1}

\* A move of the slider "Node Size:" (lines 420-426), a setting that only
\* changes how a node is drawn (`const nodeSize = {node_size}`, line 762).
\* Streamlit runs the script again from the top with the other inputs as they
\* are; the page stays in the browser until the run hands over its HTML
\* (line 2444), which differs from the one displayed and replaces it.
ChangeNodeSize ==
  /\ Idle
  /\ node_size' \in NodeSizes \ {node_size}
  /\ pc' = "config"
  /\ error_shown' = FALSE
  /\ tree_data' = <<>>
  /\ d3_tree_data' = NoTree
  /\ UNCHANGED <<config, orderMode, enableDragReorder, client>>

\* the tree, and the change of a cosmetic setting
NextRerun ==
  \/ Validate \/ BuildTree \/ WrapRoot \/ LoadPage
  \/ Click \/ DragStart \/ Drag \/ DragEnd \/ DeliverClick
  \/ ExpandAll \/ CollapseAll
  \/ ChangeNodeSize

SpecRerun == InitExport /\ [][NextRerun]_vars

\* every handler of the page, with drag & drop on
NextAll ==
  \/ Validate \/ BuildTree \/ WrapRoot \/ LoadPage
  \/ DragStart \/ Drag \/ DragEnd \/ DeliverClick
  \/ ExpandAll \/ CollapseAll
  \/ DownloadComplete \/ DownloadCurrentView
  \/ DownloadCompletePNG \/ DownloadCurrentViewPNG \/ ImageLoaded \/ BlobReady
  \/ ShowContextMenu \/ DownloadNodeData \/ ShowNodeDetails \/ DownloadNodeTree

\* a Root over two regions, which the initial sort puts in the other order
RegionsOnly == <<PageRow(1, 1, 1), PageRow(2, 1, 1)>>

InitAll ==
  /\ value_col = None
  /\ df = RegionsOnly
  /\ hierarchy = <<"Region">>
  /\ display_filters = NoDict
  /\ DefaultColors
  /\ orderMode = "Name Z→A"
  /\ enableDragReorder = TRUE
  /\ StartRun

SpecAll == InitAll /\ [][NextAll]_vars

\* the tree and the PNG exports, on the tree of one region with drag & drop on
NextPng ==
  \/ Validate \/ BuildTree \/ WrapRoot \/ LoadPage
  \/ DragStart \/ Drag \/ DragEnd \/ DeliverClick
  \/ ExpandAll \/ CollapseAll
  \/ DownloadCompletePNG \/ DownloadCurrentViewPNG \/ ImageLoaded \/ BlobReady

InitPng ==
  /\ InitPage
  /\ df = OneRegion
  /\ orderMode = "Value Desc"
  /\ enableDragReorder

SpecPng == InitPng /\ [][NextPng]_vars

\* the tree, without drag & drop, and the items of the context menu
NextMenu ==
  \/ Validate \/ BuildTree \/ WrapRoot \/ LoadPage
  \/ Click
  \/ ExpandAll \/ CollapseAll
  \/ ShowContextMenu \/ DownloadNodeData \/ ShowNodeDetails \/ DownloadNodeTree

SpecMenu == InitExport /\ [][NextMenu]_vars

PageLoaded == pc = "page"

-----------------------------------------------------------------------------
(* Reading the page                                                        *)

\* the children of a node in the aggregation tree
tree_children(d) == {Append(d, i) : i \in 1..Len(children_of(datum(data, d)))}
HasChildren(d) == tree_children(d) # {}
Expanded(d) == node_children[d] # null
Collapsed(d) == node_children[d] = null /\ _children[d] # null
NoRepeat(arr) == LET a == arr IN \A i, j \in 1..Len(a) : a[i] = a[j] => i = j

\* the children a node holds, shown or hidden
held_children(d) == IF node_children[d] # null THEN node_children[d] ELSE _children[d]

-----------------------------------------------------------------------------
(* C11 *)

InitialShape ==
  /\ \A d \in Nodes :
       HasChildren(d) => IF depth(d) <= 1 THEN Expanded(d) ELSE Collapsed(d)
  /\ VisibleSet = {d \in Nodes : depth(d) <= 2}
  /\ NoRepeat(visible)

\* C11: when the page has run its script, every node with children at depth 0
\* or 1 is expanded and every node with children at depth 2 or more is
\* collapsed, and the visible nodes are exactly the nodes of depth 0, 1 and 2.
C11_InitiallyExpandedToDepth1 ==
  [][pc = "wrapped" /\ pc' = "page" => InitialShape']_vars

C11_Witness ==
  /\ PageLoaded
  /\ InitialShape
  /\ \E d \in Nodes : depth(d) = 1 /\ Expanded(d)
  /\ \E d \in Nodes : depth(d) = 2 /\ Collapsed(d)
  /\ \E d \in Nodes : depth(d) = 3

-----------------------------------------------------------------------------
(* C12 *)

\* C12: in every state reached by node clicks, every node holds (shown or
\* hidden) exactly its children of the aggregation tree, each once; a click on a
\* visible node followed by a second click on it gives the visible tree back;
\* a click on a node without children changes nothing.
C12_TogglePreservesStructure ==
  PageLoaded =>
    /\ \A d \in Nodes :
         /\ Range(held_children(d)) = tree_children(d)
         /\ NoRepeat(held_children(d))
    /\ LET nodes == visible
       IN \A i \in 1..Len(nodes) :
            LET d == nodes[i]
                once == toggle(node_children, _children, d)
                twice == toggle(once, _children, d)
            IN /\ descendants(twice, root) = nodes
               /\ ~HasChildren(d) => once = node_children

C12_Witness ==
  /\ PageLoaded
  /\ \E d \in Nodes : depth(d) = 1 /\ Collapsed(d)
  /\ \E d \in Nodes : depth(d) = 2 /\ Expanded(d)
  /\ \E d \in VisibleSet : ~HasChildren(d)

-----------------------------------------------------------------------------
(* C13 *)

every_node_collapsed(shown, hidden) ==
  \A d \in DOMAIN shown : HasChildren(d) => shown[d] = null /\ hidden[d] # null

\* C13: after "Collapse All", in whatever state of the tree it is clicked, every
\* node with children is collapsed, the nodes that were expanded inside a
\* collapsed ancestor included.
C13_CollapseAllCollapsesEveryNode ==
  [][CollapseAll => every_node_collapsed(node_children', _children')]_vars

-----------------------------------------------------------------------------
(* C14 *)

fully_expanded(shown) ==
  LET nodes == descendants(shown, root)
  IN /\ {nodes[i] : i \in 1..Len(nodes)} = DOMAIN shown
     /\ NoRepeat(nodes)
     /\ \A d \in DOMAIN shown :
          /\ HasChildren(d) => shown[d] # null
          /\ Range(shown[d]) = tree_children(d)

\* C14: after "Expand All", in whatever state of the tree it is clicked, every
\* node of the aggregation tree is visible exactly once, every node with
\* children is expanded, and every node is shown under its parent of the
\* aggregation tree.
C14_ExpandAllShowsEveryNode ==
  [][ExpandAll => fully_expanded(node_children')]_vars

C14_Witness ==
  /\ PageLoaded
  /\ fully_expanded(node_children)
  /\ manualOrder
  /\ \E d \in Nodes : depth(d) = 3

-----------------------------------------------------------------------------
(* C15 *)

\* "after" is "before" with d dropped at position py
dropped_at(before, d, py, after) ==
  LET others == SelectSeq(after, LAMBDA s : s # d)
      k == index_of(after, d)
  IN /\ Range(after) = Range(before)
     /\ Len(after) = Len(before)
     /\ NoRepeat(after)
     /\ \A i, j \in 1..Len(others) :
          i < j => x_in(before, others[i]) < x_in(before, others[j])
     /\ \A i \in 1..(k - 1) : ~(x_in(before, after[i]) > py)
     /\ k < Len(after) => x_in(before, after[k + 1]) > py

\* C15: when the drag of a node d other than the root ends at position
\* py, the children list of its parent becomes the other siblings in ascending
\* order of position with d put immediately before the first of them whose
\* position is strictly greater than py, or at the end when there is none; the
\* new list is a permutation of the old one.
C15_DropInsertsBeforeFirstGreater ==
  (PageLoaded /\ gesture # null /\ gesture[1].node # root) =>
    LET d == gesture[1].node
        container == node_children[parent(d)]
    IN \A py \in PointerYs(container, d, TRUE) :
         dropped_at(container, d, py, newOrder(container, d, py))

\* a drag has changed the order of a list of three nodes
C15_Witness ==
  /\ PageLoaded
  /\ manualOrder
  /\ \E d \in Nodes :
       /\ Len(node_children[d]) >= 3
       /\ node_children[d] # _children[d]

-----------------------------------------------------------------------------
(* C16 *)

-----------------------------------------------------------------------------
(* C17 *)

\* C17: the end of a drag of a node other than the root sets manualOrder; once
\* set it stays set as long as the page lives; and while it is set
\* applyInitialSort leaves every sibling group as it is.
C17_ManualOrderSticks ==
  [][/\ (gesture # null /\ gesture' = null /\ gesture[1].node # root) => manualOrder'
     /\ (manualOrder /\ pc' = "page") => manualOrder'
     /\ (manualOrder' /\ pc' = "page") =>
          /\ applyInitialSort(data', orderMode', manualOrder', node_children') = node_children'
          /\ applyInitialSort(data', orderMode', manualOrder', _children') = _children'
    ]_vars

\* a drag has left a sibling group in an order that the sort mode would change
C17_Witness ==
  /\ PageLoaded
  /\ manualOrder
  /\ sortArray(data, orderMode, node_children) # node_children

-----------------------------------------------------------------------------
(* C18 *)

\* a may stand before b under the sort mode
in_order(mode, a, b) ==
  CASE mode = "Name A→Z" -> name_rank(data, a) <= name_rank(data, b)
    [] mode = "Name Z→A" -> name_rank(data, a) >= name_rank(data, b)
    [] mode = "Value Asc" -> datum(data, a).value <= datum(data, b).value
    [] mode = "Value Desc" -> datum(data, a).value >= datum(data, b).value

Ordered(arr) == \A i \in 1..(Len(arr) - 1) : in_order(orderMode, arr[i], arr[i + 1])

\* C18: with a sort mode other than "Custom (as-is)" and no manual order, the
\* initial sort leaves every sibling group of the tree, shown or hidden, in
\* the order of the mode (lower-cased name or value, ascending or descending),
\* and node clicks keep it so; with "Custom (as-is)" every sibling group is in
\* the order of the aggregation tree.
C18_InitialSortOrdersEveryGroup ==
  PageLoaded =>
    IF orderMode = "Custom (as-is)"
      THEN \A d \in Nodes :
             /\ _children[d] = d3_hierarchy(data)[d]
             /\ node_children[d] \in {null, d3_hierarchy(data)[d]}
      ELSE ~manualOrder =>
             \A d \in Nodes : Ordered(_children[d]) /\ Ordered(node_children[d])

\* a hidden sibling group that the sort has put in another order than the
\* aggregation tree has
C18_Witness ==
  /\ PageLoaded
  /\ ~manualOrder
  /\ orderMode = "Name Z→A"
  /\ \E d \in Nodes : Collapsed(d) /\ _children[d] # d3_hierarchy(data)[d]

-----------------------------------------------------------------------------
(* C19 *)

\* a node is on screen when every node above it is expanded
OnScreen(d) == \A k \in 0..(Len(d) - 1) : node_children[SubSeq(d, 1, k)] # null

draws_exactly(nodes, S) == Range(nodes) = S /\ NoRepeat(nodes)

-----------------------------------------------------------------------------
(* C20 *)

same_rows(rows, raw_data) ==
  \A row \in Range(rows) \cup Range(raw_data) : Count(rows, row) = Count(raw_data, row)

\* C20: the row list of a node data export holds every raw row folded into the
\* selected node exactly once, whatever is expanded or collapsed below it.
C20_NodeDataHoldsEachRowOnce ==
  [][DownloadNodeData /\ selectedNode # null
       => same_rows(download'.rows, datum(data, selectedNode[1]).raw_data)]_vars

-----------------------------------------------------------------------------
(* Tables with a column whose header is a date                             *)

DatedRows == {[c \in DOMAIN r \cup {DateHeader} |-> IF c = DateHeader THEN 1 ELSE r[c]] :
                r \in CountRows}

InitJson ==
  /\ value_col = None
  /\ df \in SeqsUpTo(CountRows, MaxRows) \cup SeqsUpTo(DatedRows, MaxRows)
  /\ hierarchy \in Hierarchies
  /\ display_filters = NoDict
  /\ DefaultColors
  /\ DefaultOrder
  /\ StartRun

\* one run of the script up to the page
NextJson == Validate \/ BuildTree \/ WrapRoot \/ LoadPage

SpecJson == InitJson /\ [][NextJson]_vars

\* the script has gone through lines 725-741
Serialised == pc \in {"page", "crashed"}

\* C21: when json.dumps of the full tree fails, the script does not fail: the
\* page gets the whole tree (every node, under its name), and no node of it
\* carries rows in raw_data.
C21_FallbackElidesRawDataEverywhere ==
  Serialised /\ json_dumps_raises(convert_pandas_to_json_serializable(d3_tree_data))
    => /\ pc = "page"
       /\ \A d \in PathsUnder(d3_tree_data, root) :
            /\ d \in PathsUnder(data, root)
            /\ datum(data, d).name = datum(d3_tree_data, d).name
            /\ datum(data, d).raw_data = <<>>

-----------------------------------------------------------------------------
(* The per-node exports without a selection                                *)

\* C22: while no node has been selected through the context menu, a call of a
\* per-node export (node data as CSV or Excel, node details, node tree as JSON)
\* returns at once: the browser holds the file it held before, the call has not
\* thrown, the text of the details panel is the same, and no per-node file has
\* ever been produced.
C22_NoSelectionNoExport ==
  PageLoaded /\ selectedNode = null
    => /\ downloadNodeData(data, node_children, selectedNode, download) = download
       /\ downloadNodeTree(data, node_children, selectedNode, download) = download
       /\ showNodeDetails(data, node_children, selectedNode, nodeDataContent) = nodeDataContent
       /\ download = NoDownload
       /\ nodeDataContent = null
       /\ contextMenu = "none"

\* the tree has been worked on (the root is expanded, a node below it is
\* collapsed), and still no node has been selected
C22_Witness ==
  /\ PageLoaded
  /\ selectedNode = null
  /\ Expanded(root)
  /\ \E d \in Nodes : d # root /\ Collapsed(d)

-----------------------------------------------------------------------------
(* The subtree export                                                      *)

\* json is the entry of node d: it has the name of d and no raw_data, and its
\* children are the entries of the children d shows (none when d is collapsed
\* or a leaf), in the order d shows them
RECURSIVE holds_subtree(_, _, _)
holds_subtree(json, shown, d) ==
  /\ json.name = datum(data, d).name
  /\ json.value = datum(data, d).value
  /\ "raw_data" \notin DOMAIN json
  /\ Len(json.children) = Len(shown[d])
  /\ \A i \in 1..Len(shown[d]) : holds_subtree(json.children[i], shown, shown[d][i])

\* C30: the JSON file of "Download Node Tree" holds the selected node and
\* exactly its descendants reachable through expanded nodes (a collapsed node
\* has an empty children list), in the current sibling order, and no entry has
\* a raw_data field.
C30_SubtreeExportFollowsExpandedNodes ==
  [][DownloadNodeTree /\ selectedNode # null
       => /\ download'.kind = "node_tree"
          /\ holds_subtree(download'.tree, node_children, selectedNode[1])]_vars

\* the subtree of the root of OneRegion, whose first child by value, "Status: 2",
\* has two children and is collapsed
C30_Witness ==
  /\ download.kind = "node_tree"
  /\ download.tree.name = "Region: 1"
  /\ Len(download.tree.children) = 2
  /\ download.tree.children[1].name = "Status: 2"
  /\ download.tree.children[1].children = <<>>
  /\ download.tree.children[2].children # <<>>

-----------------------------------------------------------------------------
(* Re-rendering                                                            *)

\* the children a node holds, shown or not, in their order
order_of(shown, hidden, d) == IF shown[d] # null THEN shown[d] ELSE hidden[d]

\* a page is displayed while the script runs again
Displayed == data # NoTree

\* C23: the page rendered after a change of a cosmetic setting alone (the node
\* size) shows every node expanded or collapsed as it was, with every sibling
\* group in the order it had and the manual-order flag as it was.
C23_CosmeticChangeKeepsInteractionState ==
  [][pc = "wrapped" /\ pc' = "page" /\ Displayed
       => /\ manualOrder' = manualOrder
          /\ \A d \in Nodes :
               /\ (node_children'[d] = null) = (node_children[d] = null)
               /\ order_of(node_children', _children', d)
                    = order_of(node_children, _children, d)]_vars

-----------------------------------------------------------------------------
(* The aggregation result on the page                                      *)

\* C24: the page starts with `data` equal to the tree the script serialised
\* (the initial sort has not touched it), and no step of the page changes it:
\* names, values, child lists and child order of data stay those of the literal.
C24_DataNeverModified ==
  [][/\ pc = "wrapped" /\ pc' = "page" => data' = tree_data_json(d3_tree_data)
     /\ pc = "page" /\ pc' = "page" => data' = data]_vars

\* the tree on screen is in another order than data (by the initial sort, and
\* by a drag that has set manualOrder), exports have been made, and data is
\* still the literal
C24_Witness ==
  /\ PageLoaded
  /\ data = tree_data_json(d3_tree_data)
  /\ manualOrder
  /\ order_of(node_children, _children, root) # d3_hierarchy(data)[root]
  /\ download.kind = "node_tree"
  /\ nodeDataContent # null

-----------------------------------------------------------------------------
(* Exports and the interaction state                                       *)

ImageExport ==
  \/ DownloadComplete \/ DownloadCurrentView
  \/ DownloadCompletePNG \/ DownloadCurrentViewPNG
  \/ ImageLoaded \/ BlobReady

\* C27: a step of an image export (the handler of one of the complete-tree or
\* current-view buttons, PNG or SVG, and the callbacks of a PNG export) leaves
\* the children every node shows and hides, hence every expanded/collapsed state
\* and every sibling order, the manual-order flag and the selected node as they
\* are.
C27_ImageExportKeepsInteractionState ==
  [][ImageExport
       => /\ node_children' = node_children
          /\ _children' = _children
          /\ manualOrder' = manualOrder
          /\ selectedNode' = selectedNode]_vars

\* a complete-tree file with the three nodes exists while the root is collapsed,
\* the order is manual and a node is selected
C27_Witness ==
  /\ download.kind = "complete"
  /\ Len(download.nodes) = 3
  /\ Collapsed(root)
  /\ manualOrder
  /\ selectedNode # null

-----------------------------------------------------------------------------
(* PNG exports in flight                                                   *)

\* the nodes each export in flight will show, in their order
in_flight(images) == [i \in 1..Len(images) |-> [kind |-> images[i].kind, nodes |-> images[i].svgData]]

\* C28: what a PNG file shows is fixed when its button is clicked: the export
\* in flight holds the nodes of the complete tree, or of the tree on screen, as
\* they are at the click; no step of the page between the click and the
\* callbacks (toggle, Collapse-all, Expand-all, reorder, image load) changes the
\* nodes or their order; and the file handed to the browser shows them.
C28_PngContentFixedAtClick ==
  [][/\ DownloadCompletePNG
          => pending'[Len(pending')].svgData = descendants(d3_hierarchy(data), root)
     /\ DownloadCurrentViewPNG
          => pending'[Len(pending')].svgData = descendants(node_children, root)
     /\ pc = "page" /\ pc' = "page" /\ Len(pending') = Len(pending)
          => in_flight(pending') = in_flight(pending)
     /\ pc = "page" /\ Len(pending') < Len(pending)
          => \E i \in 1..Len(pending) :
               /\ download'.kind = pending[i].kind
               /\ download'.nodes = pending[i].svgData]_vars

\* a current-view export whose image is loaded, of a tree that has changed
\* since the click
C28_Witness ==
  /\ pending # <<>>
  /\ pending[1].kind = "current_view"
  /\ pending[1].stage = "encoding"
  /\ pending[1].svgData # descendants(node_children, root)
  /\ manualOrder

-----------------------------------------------------------------------------
(* Sibling order after a reorder                                           *)

\* C25: once a drag has reordered children, a click on their expanded parent
\* followed by a second click on it shows the children in the order they had
\* before the two clicks (the order the drag gave them).
C25_ReorderSurvivesCollapseAndExpand ==
  PageLoaded /\ manualOrder =>
    \A d \in VisibleSet :
      Expanded(d) =>
        LET once == toggle(node_children, _children, d)
            twice == toggle(once, _children, d)
        IN twice[d] = node_children[d]

\* C26: Expand-all leaves every sibling group, shown or hidden, in the order it
\* had immediately before (the order of the initial sort and of the drags).
C26_ExpandAllKeepsSiblingOrder ==
  [][ExpandAll
       => \A d \in Nodes :
            order_of(node_children', _children', d) = order_of(node_children, _children, d)]_vars

\* C29: a drag of a node other than the root that ends at the node's own
\* position (the siblings being laid out in list order at increasing
\* positions) gives the children list of its parent as it was; and the end of
\* a drag of the root changes no children list and not the manual-order flag.
C29_DropInPlaceAndRootDragChangeNothing ==
  [][/\ (gesture # null /\ gesture[1].node # root)
          => LET d == gesture[1].node
                 container == node_children[parent(d)]
             IN newOrder(container, d, x_in(container, d)) = container
     /\ (gesture # null /\ gesture' = null /\ gesture[1].node = root)
          => /\ node_children' = node_children
             /\ _children' = _children
             /\ manualOrder' = manualOrder]_vars

\* a gesture with a moved pointer has ended on a node with siblings, in a tree
\* that the initial sort has put in another order than data, and has left every
\* children list as the page was loaded with it
C29_Witness ==
  /\ click # null
  /\ click[1].moved
  /\ click[1].node # root
  /\ Len(node_children[parent(click[1].node)]) >= 2
  /\ manualOrder
  /\ \A d \in Nodes : order_of(node_children, _children, d) = _children[d]
  /\ \E d \in Nodes : Len(_children[d]) >= 2 /\ _children[d] # d3_hierarchy(data)[d]

====
